---- MODULE Spec2Model ----
(***************************************************************************)
(* Model of authentik/stages/password/stage.py: the backend chain          *)
(* authenticator `authenticate` and the three handlers of                  *)
(* PasswordStageView (get_challenge, challenge_invalid, challenge_valid),  *)
(* acting on one session and one flow plan context.                        *)
(***************************************************************************)
EXTENDS Integers, Sequences, FiniteSets, TLC

\* ---------------------------------------------------------------- bounds
MaxThreshold == 2
MaxBackends == 3

\* ------------------------------------------------------------- constants
PLAN_CONTEXT_PENDING_USER == "pending_user"
PLAN_CONTEXT_AUTHENTICATION_BACKEND == "user_backend"
SESSION_INVALID_TRIES == "user_invalid_tries"

\* Small universes for the inputs of the handlers.
BackendPaths == {"backend_a", "backend_b", "backend_barred", "backend_missing"}
Usernames == {"alice", "bob"}
Passwords == {"hunter2", "letmein", "wrong"}
RecoveryFlows == {"none", "recovery-flow"}

\* The value django's _clean_credentials substitutes for a sensitive value.
CLEANSED_SUBSTITUTE == "********************"
SENSITIVE_CREDENTIALS == {"password"}

\* A User object: the username and the `backend` attribute slot.
NoBackend == "unset"
User(username) == [username |-> username, backend |-> NoBackend]
NoUser == [username |-> "None", backend |-> NoBackend]

\* What resolving a backend path and invoking the backend with the credentials
\* does: path_to_class raises ImportError, or backend.authenticate returns None,
\* raises PermissionDenied or returns the user of that username.
\*   backend_missing  cannot be imported;
\*   backend_a        accepts the password "hunter2";
\*   backend_b        accepts "hunter2" and "letmein";
\*   backend_barred   knows both passwords and bars the account.
Verdict(kind, user) == [kind |-> kind, user |-> user]

BackendVerdict(backend_path, credentials) ==
    LET password == credentials["password"]
        user == User(credentials["username"])
    IN  CASE backend_path = "backend_missing" -> Verdict("import_error", NoUser)
          [] backend_path = "backend_a" ->
                IF password = "hunter2" THEN Verdict("user", user)
                ELSE Verdict("none", NoUser)
          [] backend_path = "backend_b" ->
                IF password \in {"hunter2", "letmein"} THEN Verdict("user", user)
                ELSE Verdict("none", NoUser)
          [] OTHER ->
                IF password \in {"hunter2", "letmein"} THEN Verdict("denied", NoUser)
                ELSE Verdict("none", NoUser)

EmptyMap == [k \in {} |-> 0]

Has(map, key) == key \in DOMAIN map

Put(map, key, value) == [k \in DOMAIN map \cup {key} |-> IF k = key THEN value ELSE map[k]]

Delete(map, key) == [k \in DOMAIN map \ {key} |-> map[k]]

\* The three signals the stage gives the executor.
StageOk == "StageOk"
StageInvalid == "StageInvalid"
StageCancelled == "StageCancelled"

VARIABLES
    backends,       \* current_stage.backends
    failed_attempts_before_cancel,  \* current_stage.failed_attempts_before_cancel
    session,        \* request.session
    context,        \* executor.plan.context
    challenge,      \* the Challenge the last handler returned, if it was get_challenge
    op,             \* the handler that ran last
    result,         \* what that handler returned
    auth,           \* the call of authenticate that handler made, if any
    wrong_run,      \* history: signals of the wrong-password submissions made in a
                    \* row, the first of them with the tries key absent
    invalid_since_ok,       \* history: invalid submissions since the last StageOk or lockout
    invalid_since_lockout,  \* history: invalid submissions since the last lockout
    invalid_kinds,  \* history: the kinds ("shape", "password") of those submissions,
                    \* kept through a lockout until the next invalid submission
    locked_before   \* history: a lockout happened before the last handler ran

vars == <<backends, failed_attempts_before_cancel, session, context, challenge, op,
          result, auth, wrong_run, invalid_since_ok, invalid_since_lockout,
          invalid_kinds, locked_before>>

config == <<backends, failed_attempts_before_cancel>>

\* ----------------------------------------------------------- authenticate

CleanCredentialsKept(credentials) == credentials

\* django.contrib.auth._clean_credentials: sensitive values are replaced.
CleanCredentials(credentials) ==
    [k \in DOMAIN credentials |->
        IF k \in SENSITIVE_CREDENTIALS THEN CLEANSED_SUBSTITUTE ELSE credentials[k]]

\* user_login_failed.send(...): the event carries the cleaned credentials.
LoginFailedEvent(credentials) == [credentials |-> CleanCredentials(credentials)]

AnnotateForgotten(user, backend_path) == user

\* user.backend = backend_path
Annotate(user, backend_path) == [user EXCEPT !.backend = backend_path]

PropagatesNever(verdict) == FALSE

\* backend.authenticate is called outside the try block: a PermissionDenied it
\* raises leaves the loop and authenticate.
Propagates(verdict) == verdict.kind = "denied"

SkippedNever(verdict) == FALSE

\* except ImportError: the path that cannot be resolved is logged and the loop
\* continues with the next path.
Skipped(verdict) == verdict.kind = "import_error"

\* The loop of authenticate from position i on; `invoked` lists the positions
\* whose backend.authenticate has been called so far.
RECURSIVE AuthenticateFrom(_, _, _, _)
AuthenticateFrom(i, backends_, credentials, invoked) ==
    IF i > Len(backends_)
    THEN [kind |-> "none", user |-> NoUser, invoked |-> invoked,
          events |-> <<LoginFailedEvent(credentials)>>]
    ELSE LET verdict == BackendVerdict(backends_[i], credentials)
         IN  IF Skipped(verdict)
             THEN AuthenticateFrom(i + 1, backends_, credentials, invoked)
             ELSE IF Propagates(verdict)
             THEN [kind |-> "denied", user |-> NoUser, invoked |-> Append(invoked, i),
                   events |-> <<>>]
             ELSE IF verdict.kind = "user"
             THEN [kind |-> "user", user |-> Annotate(verdict.user, backends_[i]),
                   invoked |-> Append(invoked, i), events |-> <<>>]
             ELSE AuthenticateFrom(i + 1, backends_, credentials, Append(invoked, i))

authenticate(backends_, credentials) == AuthenticateFrom(1, backends_, credentials, <<>>)

\* The record kept of one call of authenticate.
AuthCall(credentials, outcome) ==
    [called |-> TRUE, credentials |-> credentials, kind |-> outcome.kind,
     user |-> outcome.user, invoked |-> outcome.invoked, events |-> outcome.events]

NoAuthCall ==
    [called |-> FALSE, credentials |-> EmptyMap, kind |-> "not_called",
     user |-> NoUser, invoked |-> <<>>, events |-> <<>>]

\* ------------------------------------------------------ challenge_invalid

ExceededAtThreshold(tries, threshold) == tries >= threshold

ExceededOneLate(tries, threshold) == tries > threshold + 1

\* session[SESSION_INVALID_TRIES] > current_stage.failed_attempts_before_cancel
Exceeded(tries, threshold) == tries > threshold

ChallengeInvalidFromOne(session_, threshold) ==
    LET initialised == IF SESSION_INVALID_TRIES \notin DOMAIN session_
                       THEN [k \in DOMAIN session_ \cup {SESSION_INVALID_TRIES} |->
                                IF k = SESSION_INVALID_TRIES THEN 1 ELSE session_[k]]
                       ELSE session_
        counted == [initialised EXCEPT ![SESSION_INVALID_TRIES] = @ + 1]
    IN  IF counted[SESSION_INVALID_TRIES] > threshold
        THEN [session |-> [k \in DOMAIN counted \ {SESSION_INVALID_TRIES} |-> counted[k]],
              result |-> StageCancelled]
        ELSE [session |-> counted, result |-> StageInvalid]

ChallengeInvalidKeepingKey(session_, threshold) ==
    LET initialised == IF SESSION_INVALID_TRIES \notin DOMAIN session_
                       THEN [k \in DOMAIN session_ \cup {SESSION_INVALID_TRIES} |->
                                IF k = SESSION_INVALID_TRIES THEN 0 ELSE session_[k]]
                       ELSE session_
        counted == [initialised EXCEPT ![SESSION_INVALID_TRIES] = @ + 1]
    IN  IF counted[SESSION_INVALID_TRIES] > threshold
        THEN [session |-> counted, result |-> StageCancelled]
        ELSE [session |-> counted, result |-> StageInvalid]

\* The body of challenge_invalid on a session: the session it leaves and the
\* signal it returns.
ChallengeInvalidOn(session_, threshold) ==
    LET initialised == IF ~Has(session_, SESSION_INVALID_TRIES)
                       THEN Put(session_, SESSION_INVALID_TRIES, 0)
                       ELSE session_
        counted == [initialised EXCEPT ![SESSION_INVALID_TRIES] = @ + 1]
    IN  IF Exceeded(counted[SESSION_INVALID_TRIES], threshold)
        THEN [session |-> Delete(counted, SESSION_INVALID_TRIES), result |-> StageCancelled]
        ELSE [session |-> counted, result |-> StageInvalid]

\* ------------------------------------------------------------------ Init

\* The lists the stage can be configured with: each path at most once.
BackendLists ==
    {list \in UNION {[1..n -> BackendPaths] : n \in 0..MaxBackends} :
        \A i, j \in 1..Len(list) : list[i] = list[j] => i = j}

Init ==
    /\ backends \in BackendLists
    /\ failed_attempts_before_cancel \in 0..MaxThreshold
    /\ session = EmptyMap
    /\ context \in {EmptyMap} \cup
                   {Put(EmptyMap, PLAN_CONTEXT_PENDING_USER, User(u)) : u \in Usernames}
    /\ challenge = EmptyMap
    /\ op = "none"
    /\ result = "none"
    /\ auth = NoAuthCall
    /\ wrong_run = <<>>
    /\ invalid_since_ok = 0
    /\ invalid_since_lockout = 0
    /\ invalid_kinds = {}
    /\ locked_before = FALSE

\* --------------------------------------------------------------- actions

\* The state is the one a lockout left: the last handler counted an invalid
\* submission and cancelled the stage.
Lockout ==
    /\ op = "challenge_invalid" \/ (op = "challenge_valid" /\ auth.kind = "none")
    /\ result = StageCancelled

\* The kinds of the invalid submissions counted so far, one of `kind` added.
KindsWith(kind) ==
    IF invalid_since_lockout = 0 THEN {kind} ELSE invalid_kinds \cup {kind}

\* The history counters after an invalid submission that returned `signal`.
CountInvalid(signal, count) == IF signal = StageCancelled THEN 0 ELSE count + 1

\* avatar(pending_user)
avatar(user) == IF user.username = "alice" THEN "avatar/alice" ELSE "avatar/other"

\* reverse("authentik_flows:flow-executor-shell", kwargs={"flow_slug": slug})
reverse(slug) == IF slug = "recovery-flow" THEN "/if/flow/recovery-flow/" ELSE "/if/flow/"

GetChallengeAnonymous(context_, recovery_flow) ==
    LET base == Put(Put(EmptyMap, "type", "native"), "component", "ak-stage-password")
    IN  IF recovery_flow # "none"
        THEN Put(base, "recovery_url", reverse(recovery_flow))
        ELSE base

\* The Challenge get_challenge builds from the plan context and the recovery
\* flow lookup (`recovery_flow` is "none" when no recovery flow exists).
GetChallengeOn(context_, recovery_flow) ==
    LET base == Put(Put(EmptyMap, "type", "native"), "component", "ak-stage-password")
        named == IF Has(context_, PLAN_CONTEXT_PENDING_USER)
                 THEN Put(Put(base, "pending_user",
                              context_[PLAN_CONTEXT_PENDING_USER].username),
                          "pending_user_avatar",
                          avatar(context_[PLAN_CONTEXT_PENDING_USER]))
                 ELSE base
    IN  IF recovery_flow # "none"
        THEN Put(named, "recovery_url", reverse(recovery_flow))
        ELSE named

get_challenge ==
    \E recovery_flow \in RecoveryFlows :
        /\ challenge' = GetChallengeOn(context, recovery_flow)
        /\ op' = "get_challenge"
        /\ result' = "Challenge"
        /\ auth' = NoAuthCall
        /\ locked_before' = (locked_before \/ Lockout)
        /\ UNCHANGED <<config, session, context, wrong_run, invalid_since_ok,
                       invalid_since_lockout, invalid_kinds>>

\* challenge_invalid called by the executor for a response that failed validation.
challenge_invalid ==
    LET out == ChallengeInvalidOn(session, failed_attempts_before_cancel)
    IN  /\ session' = out.session
        /\ result' = out.result
        /\ op' = "challenge_invalid"
        /\ auth' = NoAuthCall
        /\ challenge' = EmptyMap
        /\ wrong_run' = <<>>
        /\ invalid_since_ok' = CountInvalid(out.result, invalid_since_ok)
        /\ invalid_since_lockout' = CountInvalid(out.result, invalid_since_lockout)
        /\ invalid_kinds' = KindsWith("shape")
        /\ locked_before' = (locked_before \/ Lockout)
        /\ UNCHANGED <<config, context>>

\* auth_kwargs of challenge_valid.
AuthKwargs(context_, password) ==
    [k \in {"password", "username"} |->
        IF k = "password" THEN password
        ELSE context_[PLAN_CONTEXT_PENDING_USER].username]

ContextOnSuccessUserOnly(context_, user) ==
    Put(context_, PLAN_CONTEXT_PENDING_USER, user)

\* The plan context after a successful authentication.
ContextOnSuccess(context_, user) ==
    Put(Put(context_, PLAN_CONTEXT_PENDING_USER, user),
        PLAN_CONTEXT_AUTHENTICATION_BACKEND, user.backend)

OnMissingPendingUserCounted(session_, context_, threshold) ==
    LET out == ChallengeInvalidOn(session_, threshold)
    IN  [session |-> out.session, context |-> context_, result |-> out.result,
         auth |-> NoAuthCall]

OnMissingPendingUserAccepted(session_, context_, threshold) ==
    [session |-> session_, context |-> context_, result |-> StageOk,
     auth |-> NoAuthCall]

\* challenge_valid without a pending user: return self.executor.stage_invalid().
OnMissingPendingUser(session_, context_, threshold) ==
    [session |-> session_, context |-> context_, result |-> StageCancelled,
     auth |-> NoAuthCall]

OnPermissionDeniedCounted(session_, context_, threshold, call) ==
    LET out == ChallengeInvalidOn(session_, threshold)
    IN  [session |-> out.session, context |-> context_, result |-> out.result,
         auth |-> call]

OnPermissionDeniedForgetting(session_, context_, threshold, call) ==
    [session |-> session_, context |-> Delete(context_, PLAN_CONTEXT_PENDING_USER),
     result |-> StageCancelled, auth |-> call]

\* except PermissionDenied: return self.executor.stage_invalid().
OnPermissionDenied(session_, context_, threshold, call) ==
    [session |-> session_, context |-> context_, result |-> StageCancelled,
     auth |-> call]

OnNoUserUncounted(session_, context_, threshold, call) ==
    [session |-> session_, context |-> context_, result |-> StageInvalid, auth |-> call]

\* authenticate returned no user: return self.challenge_invalid(response).
OnNoUser(session_, context_, threshold, call) ==
    LET out == ChallengeInvalidOn(session_, threshold)
    IN  [session |-> out.session, context |-> context_, result |-> out.result,
         auth |-> call]

OnSuccessResetting(session_, context_, call) ==
    [session |-> Delete(session_, SESSION_INVALID_TRIES),
     context |-> ContextOnSuccess(context_, call.user),
     result |-> StageOk, auth |-> call]

\* authenticate returned a user: the plan context is written and
\* self.executor.stage_ok() returned; the session is not touched.
OnSuccess(session_, context_, call) ==
    [session |-> session_, context |-> ContextOnSuccess(context_, call.user),
     result |-> StageOk, auth |-> call]

\* The body of challenge_valid: the session, plan context, signal and call of
\* authenticate it leaves.
ChallengeValidOn(session_, context_, backends_, threshold, password) ==
    IF ~Has(context_, PLAN_CONTEXT_PENDING_USER)
    THEN OnMissingPendingUser(session_, context_, threshold)
    ELSE
        LET auth_kwargs == AuthKwargs(context_, password)
            outcome == authenticate(backends_, auth_kwargs)
            call == AuthCall(auth_kwargs, outcome)
        IN  IF outcome.kind = "denied"
            THEN OnPermissionDenied(session_, context_, threshold, call)
            ELSE IF outcome.kind = "none"
            THEN OnNoUser(session_, context_, threshold, call)
            ELSE OnSuccess(session_, context_, call)

challenge_valid ==
    \E password \in Passwords :
        LET out == ChallengeValidOn(session, context, backends,
                                    failed_attempts_before_cancel, password)
            wrong == out.auth.kind = "none"
        IN  /\ session' = out.session
            /\ context' = out.context
            /\ result' = out.result
            /\ auth' = out.auth
            /\ op' = "challenge_valid"
            /\ wrong_run' =
                    IF ~wrong THEN <<>>
                    ELSE IF ~Has(session, SESSION_INVALID_TRIES) THEN <<out.result>>
                    ELSE IF wrong_run # <<>> THEN Append(wrong_run, out.result)
                    ELSE <<>>
            /\ invalid_since_ok' =
                    IF wrong THEN CountInvalid(out.result, invalid_since_ok)
                    ELSE IF out.result = StageOk THEN 0
                    ELSE invalid_since_ok
            /\ invalid_since_lockout' =
                    IF wrong THEN CountInvalid(out.result, invalid_since_lockout)
                    ELSE invalid_since_lockout
            /\ invalid_kinds' = IF wrong THEN KindsWith("password") ELSE invalid_kinds
            /\ locked_before' = (locked_before \/ Lockout)
            /\ challenge' = EmptyMap
            /\ UNCHANGED config

call_authenticate_annotating_plan ==
    \E username \in Usernames, password \in Passwords :
        LET credentials == [k \in {"password", "username"} |->
                                IF k = "password" THEN password ELSE username]
            outcome == authenticate(backends, credentials)
        IN  /\ auth' = AuthCall(credentials, outcome)
            /\ op' = "authenticate"
            /\ result' = outcome.kind
            /\ challenge' = EmptyMap
            /\ context' = IF outcome.kind = "user"
                          THEN Put(context, PLAN_CONTEXT_AUTHENTICATION_BACKEND,
                                   outcome.user.backend)
                          ELSE context
            /\ locked_before' = (locked_before \/ Lockout)
            /\ UNCHANGED <<config, session, wrong_run, invalid_since_ok,
                           invalid_since_lockout, invalid_kinds>>

\* authenticate called on its own with the stage's backends: it reads the
\* request and the credentials and writes neither the session nor the plan.
call_authenticate ==
    \E username \in Usernames, password \in Passwords :
        LET credentials == [k \in {"password", "username"} |->
                                IF k = "password" THEN password ELSE username]
            outcome == authenticate(backends, credentials)
        IN  /\ auth' = AuthCall(credentials, outcome)
            /\ op' = "authenticate"
            /\ result' = outcome.kind
            /\ challenge' = EmptyMap
            /\ locked_before' = (locked_before \/ Lockout)
            /\ UNCHANGED <<config, session, context, wrong_run, invalid_since_ok,
                           invalid_since_lockout, invalid_kinds>>

Next ==
    \/ get_challenge
    \/ call_authenticate
    \/ challenge_invalid
    \/ challenge_valid

Spec == Init /\ [][Next]_vars

\* ------------------------------------------------------------ properties

\* session[SESSION_INVALID_TRIES], 0 when the key is absent.
Tries == IF Has(session, SESSION_INVALID_TRIES) THEN session[SESSION_INVALID_TRIES] ELSE 0

Range(seq) == {seq[i] : i \in 1..Len(seq)}

\* What the backend at position i of the list does with the credentials of the
\* last call of authenticate.
VerdictAt(i) == BackendVerdict(backends[i], auth.credentials)

\* Every backend before position n is resolved, invoked and returns None.
NoneBefore(n) == \A m \in 1..(n - 1) : VerdictAt(m).kind = "none"

\* The loop of authenticate reaches position n: every backend before it is
\* skipped or returns None.
Reached(n) == \A m \in 1..(n - 1) : VerdictAt(m).kind \in {"none", "import_error"}

\* The last handler was challenge_valid and every backend declined the password.
WrongPassword == op = "challenge_valid" /\ auth.kind = "none"

\* C1: starting with the tries key absent, wrong-password submissions made in
\* a row through challenge_valid give StageInvalid on each of the first
\* failed_attempts_before_cancel submissions and StageCancelled exactly on the
\* next one, after which the tries key is absent from the session.
C1_LockoutAfterThreshold ==
    /\ Len(wrong_run) <= failed_attempts_before_cancel + 1
    /\ \A i \in 1..Len(wrong_run) :
            wrong_run[i] = IF i = failed_attempts_before_cancel + 1
                           THEN StageCancelled ELSE StageInvalid
    /\ Len(wrong_run) = failed_attempts_before_cancel + 1
            => ~Has(session, SESSION_INVALID_TRIES)
    /\ (WrongPassword /\ wrong_run # <<>>) => result = wrong_run[Len(wrong_run)]

C1_Witness ==
    /\ failed_attempts_before_cancel = 2
    /\ WrongPassword
    /\ wrong_run = <<StageInvalid, StageInvalid, StageCancelled>>

\* C2: when the backend at position n returns an identity and every backend
\* before it returns None, authenticate returns that identity with its backend
\* attribute set to backends[n], and the backends invoked are exactly those at
\* positions 1..n.
C2_FirstMatchWins ==
    auth.called =>
        \A n \in 1..Len(backends) :
            (VerdictAt(n).kind = "user" /\ NoneBefore(n)) =>
                /\ auth.kind = "user"
                /\ auth.user.username = VerdictAt(n).user.username
                /\ auth.user.backend = backends[n]
                /\ auth.invoked = [i \in 1..n |-> i]

C2_Witness ==
    /\ auth.called
    /\ Len(backends) = 3
    /\ VerdictAt(1).kind = "none"
    /\ VerdictAt(2).kind = "user"
    /\ VerdictAt(3).kind \in {"user", "denied"}
    /\ backends[3] # backends[2]
    /\ auth.invoked = <<1, 2>>
    /\ auth.user.backend = backends[2]

\* C3: when the loop of authenticate reaches a backend that raises
\* PermissionDenied, authenticate ends denied there: no later backend is
\* invoked, no identity is returned and no login-failed event is sent.
C3_DeniedStopsChain ==
    auth.called =>
        \A n \in 1..Len(backends) :
            (VerdictAt(n).kind = "denied" /\ Reached(n)) =>
                /\ auth.kind = "denied"
                /\ auth.user = NoUser
                /\ auth.events = <<>>
                /\ n \in Range(auth.invoked)
                /\ \A m \in Range(auth.invoked) : m <= n

C3_Witness ==
    /\ auth.called
    /\ auth.kind = "denied"
    /\ \E n \in 1..Len(backends), k \in 1..Len(backends) :
            /\ n < k
            /\ VerdictAt(n).kind = "denied"
            /\ Reached(n)
            /\ VerdictAt(k).kind = "user"

\* C4: when challenge_valid finds the pending user and authenticate returns an
\* identity, the stage returns StageOk, pending_user in the plan context is the
\* returned identity and user_backend is the path of the backend that accepted.
C4_SuccessWritesContext ==
    (op = "challenge_valid" /\ auth.kind = "user") =>
        /\ result = StageOk
        /\ Has(context, PLAN_CONTEXT_PENDING_USER)
        /\ context[PLAN_CONTEXT_PENDING_USER] = auth.user
        /\ Has(context, PLAN_CONTEXT_AUTHENTICATION_BACKEND)
        /\ context[PLAN_CONTEXT_AUTHENTICATION_BACKEND]
                = backends[auth.invoked[Len(auth.invoked)]]
        /\ VerdictAt(auth.invoked[Len(auth.invoked)]).kind = "user"

C4_Witness ==
    /\ op = "challenge_valid"
    /\ result = StageOk
    /\ backends = <<"backend_a", "backend_b">>
    /\ context[PLAN_CONTEXT_PENDING_USER] = [username |-> "alice", backend |-> "backend_b"]
    /\ context[PLAN_CONTEXT_AUTHENTICATION_BACKEND] = "backend_b"

\* C5: a call of challenge_valid made while pending_user is absent from the
\* plan context returns StageCancelled and makes no call of authenticate,
\* whatever the response and the session.
C5_NoPendingUserCancels ==
    [][(op' = "challenge_valid" /\ ~Has(context, PLAN_CONTEXT_PENDING_USER)) =>
            (result' = StageCancelled /\ auth' = NoAuthCall)]_vars

C5_Witness ==
    /\ op = "challenge_valid"
    /\ ~Has(context, PLAN_CONTEXT_PENDING_USER)
    /\ result = StageCancelled
    /\ ~auth.called
    /\ Tries = 2

\* C6: a call of challenge_valid in which authenticate ends denied returns
\* StageCancelled and leaves the session as it was.
C6_DeniedLeavesCounter ==
    [][(op' = "challenge_valid" /\ auth'.kind = "denied") =>
            (result' = StageCancelled /\ session' = session)]_vars

C6_Witness ==
    /\ op = "challenge_valid"
    /\ auth.kind = "denied"
    /\ result = StageCancelled
    /\ Tries = failed_attempts_before_cancel
    /\ Tries = 2

\* C7: between calls the tries key is absent or holds a value in
\* 1..failed_attempts_before_cancel.
C7_CounterWithinThreshold ==
    Has(session, SESSION_INVALID_TRIES) =>
        session[SESSION_INVALID_TRIES] \in 1..failed_attempts_before_cancel

C7_Witness ==
    /\ result = StageInvalid
    /\ failed_attempts_before_cancel = 2
    /\ Tries = 2

\* C8 as stated: the tries counter (0 when absent) equals the number of invalid
\* submissions made since the most recent StageOk or lockout.
C8_CountsSinceSuccessOrLockout == Tries = invalid_since_ok

\* C8 amended: the tries counter (0 when absent) equals the number of invalid
\* submissions made since the most recent lockout; a StageOk in between does
\* not restart the count.
C8_CountsSinceLockout == Tries = invalid_since_lockout

C8_Witness ==
    /\ WrongPassword
    /\ result = StageInvalid
    /\ Has(context, PLAN_CONTEXT_AUTHENTICATION_BACKEND)
    /\ Tries = 2
    /\ invalid_since_ok = 1

\* C9: a wrong-password submission that does not end in lockout returns
\* StageInvalid and raises the tries counter by exactly 1, an absent key
\* counting as 0.
C9_WrongPasswordCountsOne ==
    [][(op' = "challenge_valid" /\ auth'.kind = "none" /\ result' # StageCancelled) =>
            /\ result' = StageInvalid
            /\ Has(session', SESSION_INVALID_TRIES)
            /\ session'[SESSION_INVALID_TRIES] = Tries + 1]_vars

C9_Witness ==
    /\ WrongPassword
    /\ result = StageInvalid
    /\ wrong_run = <<StageInvalid>>
    /\ session[SESSION_INVALID_TRIES] = 1

\* No backend of the list returns an identity or raises PermissionDenied for
\* the credentials of the last call of authenticate.
Exhausted == \A i \in 1..Len(backends) : VerdictAt(i).kind \in {"none", "import_error"}

\* C10: authenticate sends the login-failed event exactly once, with the
\* username and the password replaced by the substitute, when the whole list
\* is exhausted without an identity (the empty list and a list of unresolvable
\* paths included), and sends no event otherwise.
C10_EventIffExhausted ==
    auth.called =>
        IF Exhausted
        THEN /\ Len(auth.events) = 1
             /\ DOMAIN auth.events[1].credentials = {"username", "password"}
             /\ auth.events[1].credentials["username"] = auth.credentials["username"]
             /\ auth.events[1].credentials["password"] = CLEANSED_SUBSTITUTE
             /\ auth.credentials["password"] \in Passwords
        ELSE auth.events = <<>>

C10_Witness ==
    /\ auth.called
    /\ Len(auth.events) = 1
    /\ backends = <<"backend_missing", "backend_a">>
    /\ auth.credentials["username"] = "bob"
    /\ auth.credentials["password"] = "letmein"

\* C11: a call of challenge_valid that returns StageOk leaves the session as
\* it was: the tries key keeps its value, and stays absent if it was absent.
C11_SuccessLeavesCounter ==
    [][(op' = "challenge_valid" /\ result' = StageOk) => session' = session]_vars

C11_Witness ==
    /\ op = "challenge_valid"
    /\ result = StageOk
    /\ Has(session, SESSION_INVALID_TRIES)
    /\ session[SESSION_INVALID_TRIES] = 2

\* C12 as stated: with pending_user absent from the plan context get_challenge
\* produces no challenge and the stage cancels instead.
C12_NoChallengeWithoutPendingUser ==
    (op = "get_challenge" /\ ~Has(context, PLAN_CONTEXT_PENDING_USER)) =>
        (challenge = EmptyMap /\ result = StageCancelled)

\* C12 amended: get_challenge always returns a challenge; it carries the
\* pending_user and pending_user_avatar fields exactly when pending_user is in
\* the plan context, and get_challenge never cancels the stage.
C12_ChallengeAlwaysBuilt ==
    op = "get_challenge" =>
        /\ result = "Challenge"
        /\ {"type", "component"} \subseteq DOMAIN challenge
        /\ Has(challenge, "pending_user") <=> Has(context, PLAN_CONTEXT_PENDING_USER)
        /\ Has(challenge, "pending_user_avatar") <=> Has(context, PLAN_CONTEXT_PENDING_USER)
        /\ Has(context, PLAN_CONTEXT_PENDING_USER) =>
                challenge["pending_user"] = context[PLAN_CONTEXT_PENDING_USER].username

C12_Witness ==
    /\ op = "get_challenge"
    /\ ~Has(context, PLAN_CONTEXT_PENDING_USER)
    /\ result = "Challenge"
    /\ DOMAIN challenge = {"type", "component", "recovery_url"}

\* The backend list without the paths that cannot be resolved for the
\* credentials of the last call of authenticate.
Resolvable(path) == BackendVerdict(path, auth.credentials).kind # "import_error"

ResolvableBackends == SelectSeq(backends, Resolvable)

\* The paths of the backends a call of authenticate invoked, in order.
InvokedPaths(list, invoked) == [i \in 1..Len(invoked) |-> list[invoked[i]]]

\* C13: a path that cannot be resolved is skipped, never invoked, and the
\* failure never reaches the caller: authenticate ends with the identity and
\* accepting backend, denied, or no identity and the login-failed event that it
\* ends with on the same list without the unresolvable paths.
C13_UnresolvableSkipped ==
    auth.called =>
        LET clean == authenticate(ResolvableBackends, auth.credentials)
        IN  /\ auth.kind \in {"user", "none", "denied"}
            /\ auth.kind = clean.kind
            /\ auth.user = clean.user
            /\ auth.events = clean.events
            /\ InvokedPaths(backends, auth.invoked)
                    = InvokedPaths(ResolvableBackends, clean.invoked)
            /\ \A i \in Range(auth.invoked) : Resolvable(backends[i])

C13_Witness ==
    /\ auth.called
    /\ backends = <<"backend_missing", "backend_a", "backend_barred">>
    /\ auth.kind = "none"
    /\ auth.invoked = <<2, 3>>
    /\ Len(auth.events) = 1

\* C14: a call of authenticate leaves the session and the plan context as they
\* were, whatever the backends do: user_invalid_tries, pending_user and
\* user_backend have the same values after the call as before it.
C14_AuthenticateWritesNothing ==
    [][op' = "authenticate" => (session' = session /\ context' = context)]_vars

C14_Witness ==
    /\ op = "authenticate"
    /\ auth.kind = "user"
    /\ auth.invoked = <<2>>
    /\ Tries = 1
    /\ Has(context, PLAN_CONTEXT_PENDING_USER)
    /\ context[PLAN_CONTEXT_PENDING_USER].backend = NoBackend
    /\ ~Has(context, PLAN_CONTEXT_AUTHENTICATION_BACKEND)

\* The last handler counted an invalid submission: a response that failed
\* validation, or a password every backend declined.
InvalidSubmission == op = "challenge_invalid" \/ WrongPassword

\* C15: responses that fail validation and wrong passwords feed one counter:
\* counting the invalid submissions of either kind since the key was last
\* absent, the one that follows failed_attempts_before_cancel others returns
\* StageCancelled and every earlier one returns StageInvalid.
C15_OneCounterForBothKinds ==
    [][InvalidSubmission' =>
            /\ invalid_since_lockout <= failed_attempts_before_cancel
            /\ result' = IF invalid_since_lockout = failed_attempts_before_cancel
                         THEN StageCancelled ELSE StageInvalid]_vars

C15_Witness ==
    /\ failed_attempts_before_cancel = 2
    /\ WrongPassword
    /\ result = StageCancelled
    /\ invalid_kinds = {"shape", "password"}

\* C16: a lockout leaves the tries key absent; on a session that has been
\* locked out, the next invalid submission sets the key to 1 (or cancels again
\* at once when the threshold is 0), and the next lockout comes exactly on the
\* invalid submission that follows failed_attempts_before_cancel others.
C16_LockoutRestartsCount ==
    [][/\ (InvalidSubmission' /\ result' = StageCancelled)
            => ~Has(session', SESSION_INVALID_TRIES)
       /\ (InvalidSubmission' /\ locked_before') =>
            /\ result' = IF invalid_since_lockout = failed_attempts_before_cancel
                         THEN StageCancelled ELSE StageInvalid
            /\ result' = StageInvalid =>
                    /\ Has(session', SESSION_INVALID_TRIES)
                    /\ session'[SESSION_INVALID_TRIES] = invalid_since_lockout + 1
            /\ (Lockout /\ failed_attempts_before_cancel > 0) =>
                    /\ Has(session', SESSION_INVALID_TRIES)
                    /\ session'[SESSION_INVALID_TRIES] = 1]_vars

C16_Witness ==
    /\ failed_attempts_before_cancel = 2
    /\ locked_before
    /\ Lockout
    /\ ~Has(session, SESSION_INVALID_TRIES)
    /\ wrong_run = <<StageInvalid, StageInvalid, StageCancelled>>

\* C17: a handler returns StageOk only from challenge_valid, with pending_user
\* in the plan context before the call and a backend of the stage's list
\* returning an identity for that user's username and the submitted password;
\* user_backend in the plan context is always a path of that list.
C17_OkOnlyThroughAcceptance ==
    [][/\ result' = StageOk =>
            /\ op' = "challenge_valid"
            /\ Has(context, PLAN_CONTEXT_PENDING_USER)
            /\ auth'.called
            /\ auth'.credentials["username"] = context[PLAN_CONTEXT_PENDING_USER].username
            /\ auth'.credentials["password"] \in Passwords
            /\ \E i \in 1..Len(backends) :
                    /\ i \in Range(auth'.invoked)
                    /\ BackendVerdict(backends[i], auth'.credentials).kind = "user"
                    /\ context'[PLAN_CONTEXT_AUTHENTICATION_BACKEND] = backends[i]
       /\ Has(context', PLAN_CONTEXT_AUTHENTICATION_BACKEND) =>
            context'[PLAN_CONTEXT_AUTHENTICATION_BACKEND] \in Range(backends)]_vars

C17_Witness ==
    /\ result = StageOk
    /\ backends = <<"backend_missing", "backend_a", "backend_b">>
    /\ auth.credentials["password"] = "letmein"
    /\ auth.invoked = <<2, 3>>
    /\ context[PLAN_CONTEXT_AUTHENTICATION_BACKEND] = "backend_b"

\* C18: the plan context is written only on success: a call of challenge_valid
\* that does not return StageOk, a call of challenge_invalid and a call of
\* get_challenge leave pending_user and user_backend as they were, and
\* get_challenge leaves the session as it was too.
C18_ContextWrittenOnlyOnSuccess ==
    [][/\ (op' \in {"challenge_valid", "challenge_invalid", "get_challenge"}
            /\ result' # StageOk) => context' = context
       /\ op' = "get_challenge" => session' = session]_vars

C18_Witness ==
    /\ op = "challenge_valid"
    /\ auth.kind = "denied"
    /\ result = StageCancelled
    /\ Has(context, PLAN_CONTEXT_AUTHENTICATION_BACKEND)
    /\ context[PLAN_CONTEXT_AUTHENTICATION_BACKEND] = "backend_a"
    /\ context[PLAN_CONTEXT_PENDING_USER].backend = "backend_a"

====
